---- MODULE Spec2Model ----
(***************************************************************************)
(* Text Classification Tool (src/1_app.py): a Streamlit script holding a   *)
(* keyword dictionary in session state and a classify_text function that   *)
(* is applied to one column of an uploaded table.                          *)
(*                                                                         *)
(* Python strings are modelled as sequences of one-character strings, so   *)
(* that lower(), strip(), split(), join() and the substring test `in` are  *)
(* computed rather than assumed.  A Python dict is modelled as a sequence  *)
(* of [category, keywords] entries (dicts iterate in insertion order).     *)
(* One action is one run of the script triggered by one widget             *)
(* interaction, st.rerun() included.                                       *)
(***************************************************************************)
EXTENDS Integers, Sequences, FiniteSets, TLC

VARIABLES
    dictionaries,    \* st.session_state.dictionaries
    uploaded_file,   \* the file held by st.file_uploader (NoTable when none)
    text_column,     \* value of the column selectbox
    df,              \* the DataFrame at the end of the last script run
    filter_option,   \* value of the "Filter results:" selectbox in the last run
    filtered_df,     \* rows of filtered_df in the last run
    notice,          \* the st.success / st.error message the last run showed
    classify_calls   \* number of classify_text invocations in the last run

vars == <<dictionaries, uploaded_file, text_column, df, filter_option,
          filtered_df, notice, classify_calls>>

----------------------------------------------------------------------------
(* Bounds of the model *)

\* largest number of categories the store is allowed to grow to
MaxCats == 2

----------------------------------------------------------------------------
(* Strings *)

NL == "\n"
SP == " "

UpperLetters == <<"A","B","C","D","E","F","G","H","I","J","K","L","M",
                  "N","O","P","Q","R","S","T","U","V","W","X","Y","Z">>
LowerLetters == <<"a","b","c","d","e","f","g","h","i","j","k","l","m",
                  "n","o","p","q","r","s","t","u","v","w","x","y","z">>

\* the lowercase letter of each uppercase letter
LowerOf ==
    [c \in {UpperLetters[i] : i \in DOMAIN UpperLetters} |->
        LowerLetters[CHOOSE i \in DOMAIN UpperLetters : UpperLetters[i] = c]]

\* str.lower() on one character
LowerChar(c) == IF c \in DOMAIN LowerOf THEN LowerOf[c] ELSE c

\* str.lower()
Lower(s) == [i \in DOMAIN s |-> LowerChar(s[i])]

\* the Python test `sub in s` on strings
Contains(sub, s) ==
    \E i \in 0..(Len(s) - Len(sub)) : \A j \in 1..Len(sub) : s[i + j] = sub[j]

IsSpace(c) == c = SP \/ c = NL

RECURSIVE LStrip(_)
LStrip(s) ==
    IF s # <<>> /\ IsSpace(Head(s)) THEN LStrip(Tail(s)) ELSE s

RECURSIVE RStrip(_)
RStrip(s) ==
    IF s # <<>> /\ IsSpace(s[Len(s)]) THEN RStrip(SubSeq(s, 1, Len(s) - 1)) ELSE s

\* str.strip()
Strip(s) == RStrip(LStrip(s))

\* str.split(sep) for a one-character separator: always at least one piece
RECURSIVE Split(_, _)
Split(s, sep) ==
    IF \E i \in DOMAIN s : s[i] = sep
    THEN LET i == CHOOSE j \in DOMAIN s :
                      s[j] = sep /\ \A k \in 1..(j - 1) : s[k] # sep
         IN  <<SubSeq(s, 1, i - 1)>> \o Split(SubSeq(s, i + 1, Len(s)), sep)
    ELSE <<s>>

\* sep.join(parts)
RECURSIVE Join(_, _)
Join(parts, sep) ==
    IF parts = <<>> THEN <<>>
    ELSE IF Len(parts) = 1 THEN parts[1]
    ELSE parts[1] \o sep \o Join(Tail(parts), sep)

CommaSpace == <<",", " ">>
Unclassified == <<"u","n","c","l","a","s","s","i","f","i","e","d">>
OptAll == <<"A","l","l">>
OptClassifiedOnly ==
    <<"C","l","a","s","s","i","f","i","e","d"," ","O","n","l","y">>
OptUnclassifiedOnly ==
    <<"U","n","c","l","a","s","s","i","f","i","e","d"," ","O","n","l","y">>

----------------------------------------------------------------------------
(* The seed dictionaries *)

UrgencyMarketing ==
    <<"u","r","g","e","n","c","y","_","m","a","r","k","e","t","i","n","g">>
ExclusiveMarketing ==
    <<"e","x","c","l","u","s","i","v","e","_","m","a","r","k","e","t","i","n","g">>

UrgencyKeywords ==
    { <<"l","i","m","i","t","e","d">>,
      <<"l","i","m","i","t","e","d"," ","t","i","m","e">>,
      <<"l","i","m","i","t","e","d"," ","r","u","n">>,
      <<"l","i","m","i","t","e","d"," ","e","d","i","t","i","o","n">>,
      <<"o","r","d","e","r"," ","n","o","w">>,
      <<"l","a","s","t"," ","c","h","a","n","c","e">>,
      <<"h","u","r","r","y">>,
      <<"w","h","i","l","e"," ","s","u","p","p","l","i","e","s"," ","l","a","s","t">>,
      <<"b","e","f","o","r","e"," ","t","h","e","y","'","r","e"," ","g","o","n","e">>,
      <<"s","e","l","l","i","n","g"," ","o","u","t">>,
      <<"s","e","l","l","i","n","g"," ","f","a","s","t">>,
      <<"a","c","t"," ","n","o","w">>,
      <<"d","o","n","'","t"," ","w","a","i","t">>,
      <<"t","o","d","a","y"," ","o","n","l","y">>,
      <<"e","x","p","i","r","e","s"," ","s","o","o","n">>,
      <<"f","i","n","a","l"," ","h","o","u","r","s">>,
      <<"a","l","m","o","s","t"," ","g","o","n","e">> }

ExclusiveKeywords ==
    { <<"e","x","c","l","u","s","i","v","e">>,
      <<"e","x","c","l","u","s","i","v","e","l","y">>,
      <<"e","x","c","l","u","s","i","v","e"," ","o","f","f","e","r">>,
      <<"e","x","c","l","u","s","i","v","e"," ","d","e","a","l">>,
      <<"m","e","m","b","e","r","s"," ","o","n","l","y">>,
      <<"v","i","p">>,
      <<"s","p","e","c","i","a","l"," ","a","c","c","e","s","s">>,
      <<"i","n","v","i","t","a","t","i","o","n"," ","o","n","l","y">>,
      <<"p","r","e","m","i","u","m">>,
      <<"p","r","i","v","i","l","e","g","e","d">>,
      <<"l","i","m","i","t","e","d"," ","a","c","c","e","s","s">>,
      <<"s","e","l","e","c","t"," ","c","u","s","t","o","m","e","r","s">>,
      <<"i","n","s","i","d","e","r">>,
      <<"p","r","i","v","a","t","e"," ","s","a","l","e">>,
      <<"e","a","r","l","y"," ","a","c","c","e","s","s">> }

SeedDictionaries ==
    << [category |-> UrgencyMarketing,   keywords |-> UrgencyKeywords],
       [category |-> ExclusiveMarketing, keywords |-> ExclusiveKeywords] >>

----------------------------------------------------------------------------
(* Python dict operations on the store *)

\* dict.keys(), in iteration order
Keys(d) == [i \in DOMAIN d |-> d[i].category]

KeySet(d) == {d[i].category : i \in DOMAIN d}

\* d[k]
Get(d, k) == d[CHOOSE i \in DOMAIN d : d[i].category = k].keywords

\* d[k] = v : an existing key keeps its position, a new key goes last
DictSet(d, k, v) ==
    IF k \in KeySet(d)
    THEN [i \in DOMAIN d |->
             IF d[i].category = k THEN [category |-> k, keywords |-> v] ELSE d[i]]
    ELSE Append(d, [category |-> k, keywords |-> v])

\* a delete that empties the category instead of removing its entry
DictDel_ClearsKeywords(d, k) == DictSet(d, k, {})

\* del d[k]
DictDel(d, k) == SelectSeq(d, LAMBDA e : e.category # k)

----------------------------------------------------------------------------
(* classify_text *)

\* a table cell: a string, or the missing value read_csv yields for an
\* empty field
StrCell(s) == [kind |-> "str", s |-> s]
NaN == [kind |-> "nan", s |-> <<>>]

\* str(text)
Str(x) == IF x.kind = "nan" THEN <<"n","a","n">> ELSE x.s

\* the inner loop without its break: one append per keyword found
ScanKeywords_NoBreak(category, keywords, text_lower) ==
    [i \in 1..Cardinality({keyword \in keywords : Contains(keyword, text_lower)})
        |-> category]

\* the inner loop: for keyword in keywords: if keyword in text_lower:
\* append, break.  The result is what the loop appends: the category once
\* if some keyword is found, whatever the order the set is iterated in.
ScanKeywords(category, keywords, text_lower) ==
    IF \E keyword \in keywords : Contains(keyword, text_lower)
    THEN <<category>>
    ELSE <<>>

\* the outer loop over dictionaries.items(): the list `classifications`
RECURSIVE Classifications(_, _)
Classifications(text_lower, items) ==
    IF items = <<>> THEN <<>>
    ELSE ScanKeywords(Head(items).category, Head(items).keywords, text_lower)
         \o Classifications(text_lower, Tail(items))

\* a classify_text that returns the joined list even when it is empty
classify_text_NoSentinel(text, dicts) ==
    Join(Classifications(Lower(Str(text)), dicts), CommaSpace)

classify_text(text, dicts) ==
    LET text_lower == Lower(Str(text))
        classifications == Classifications(text_lower, dicts)
    IN  IF classifications # <<>>
        THEN Join(classifications, CommaSpace)
        ELSE Unclassified

----------------------------------------------------------------------------
(* Tables *)

ClassificationColumn == "classification"
TextColumn == "text"
NoColumn == ""

NoTable == [columns |-> <<>>, rows |-> <<>>]

\* df[col] = values : an existing column is overwritten in place, a new
\* one is appended after the others
SetColumn(table, col, values) ==
    [columns |-> IF \E i \in DOMAIN table.columns : table.columns[i] = col
                 THEN table.columns
                 ELSE Append(table.columns, col),
     rows    |-> [i \in DOMAIN table.rows |->
                     [c \in DOMAIN table.rows[i] \cup {col} |->
                         IF c = col THEN values[i] ELSE table.rows[i][c]]]]

\* df[text_column].apply(lambda x: classify_text(x, dictionaries))
ApplyClassify(table, col, dicts) ==
    [i \in DOMAIN table.rows |-> StrCell(classify_text(table.rows[i][col], dicts))]

\* the options of the "Filter results:" selectbox
FilterOptions(dicts) ==
    <<OptAll, OptClassifiedOnly, OptUnclassifiedOnly>> \o Keys(dicts)

\* the filter applied to the classified table; Series.str.contains searches
\* for the option as a pattern, which for names without pattern
\* metacharacters is the substring test
ApplyFilter(table, option) ==
    IF option = OptAll THEN table.rows
    ELSE IF option = OptClassifiedOnly
    THEN SelectSeq(table.rows, LAMBDA r : r[ClassificationColumn].s # Unclassified)
    ELSE IF option = OptUnclassifiedOnly
    THEN SelectSeq(table.rows, LAMBDA r : r[ClassificationColumn].s = Unclassified)
    ELSE SelectSeq(table.rows, LAMBDA r : Contains(option, r[ClassificationColumn].s))

----------------------------------------------------------------------------
(* Inputs *)

Urgency == <<"u","r","g","e","n","c","y">>

\* what the user may type into "Category Name:"
NameInputs == { <<>>, Urgency, Unclassified, UrgencyMarketing, ExclusiveMarketing }

\* what the user may type into a keywords text area
KeywordInputs ==
    { <<>>,
      <<" ">>,
      <<"V","I","P">>,
      <<" ","v","i","p"," ",NL,NL,"h","u","r","r","y">> }

ActNowText ==
    <<"A","c","t"," ","n","o","w",","," ","V","I","P"," ","m","e","m","b",
      "e","r","s"," ","g","e","t"," ","e","a","r","l","y"," ","a","c","c",
      "e","s","s">>
PlainText ==
    <<"P","l","a","i","n"," ","p","r","o","d","u","c","t"," ","d","e","s",
      "c","r","i","p","t","i","o","n">>
OldLabel == <<"o","l","d">>

\* the values of the cells of the text column
Texts == { StrCell(ActNowText), StrCell(PlainText), NaN }

\* a file with a header line only
HeaderOnlyTable == [columns |-> <<TextColumn>>, rows |-> <<>>]

\* a file with one column, its third line empty
TextTable ==
    [columns |-> <<TextColumn>>,
     rows    |-> << [text |-> StrCell(ActNowText)],
                    [text |-> StrCell(PlainText)],
                    [text |-> NaN] >>]

\* a file that already has a column named classification
LabelledTable ==
    [columns |-> <<TextColumn, ClassificationColumn>>,
     rows    |-> << [text |-> StrCell(PlainText),
                     classification |-> StrCell(OldLabel)],
                    [text |-> StrCell(ActNowText),
                     classification |-> StrCell(OldLabel)] >>]

\* the tables pd.read_csv may return for the uploaded file
Tables == { HeaderOnlyTable, TextTable, LabelledTable }

----------------------------------------------------------------------------
(* The script *)

\* set([kw.strip() for kw in text.split('\n') if kw.strip()])
ParseKeywords(text) ==
    LET lines == Split(text, NL)
    IN  {Strip(lines[i]) : i \in {j \in DOMAIN lines : Strip(lines[j]) # <<>>}}

NoticeNone == "none"
NoticeUpdated == "Updated"
NoticeAddError == "Please provide both category name and keywords."
NoticeClassifyError ==
    "Please add at least one category with keywords before classifying."
NoticeCompleted == "Classification completed!"

\* the rest of a run in which the Classify button is not pressed: the file,
\* if any, is read again and shown without a classification
PlainRun(file, shown) ==
    /\ df' = file
    /\ filter_option' = <<>>
    /\ filtered_df' = <<>>
    /\ notice' = shown
    /\ classify_calls' = 0

Init ==
    /\ dictionaries = SeedDictionaries
    /\ uploaded_file = NoTable
    /\ text_column = NoColumn
    /\ df = NoTable
    /\ filter_option = <<>>
    /\ filtered_df = <<>>
    /\ notice = NoticeNone
    /\ classify_calls = 0

\* "Update <category>" pressed with new_keywords in its text area
Update(category, new_keywords) ==
    /\ category \in KeySet(dictionaries)
    /\ dictionaries' = DictSet(dictionaries, category, ParseKeywords(new_keywords))
    /\ PlainRun(uploaded_file, NoticeUpdated)
    /\ UNCHANGED <<uploaded_file, text_column>>

\* "Delete <category>" pressed; st.rerun() starts the script over
Delete(category) ==
    /\ category \in KeySet(dictionaries)
    /\ dictionaries' = DictDel(dictionaries, category)
    /\ PlainRun(uploaded_file, NoticeNone)
    /\ UNCHANGED <<uploaded_file, text_column>>

\* the test written with `or`
AddAccepted_Either(new_category_name, new_category_keywords) ==
    new_category_name # <<>> \/ new_category_keywords # <<>>

\* the test `if new_category_name and new_category_keywords`
AddAccepted(new_category_name, new_category_keywords) ==
    new_category_name # <<>> /\ new_category_keywords # <<>>

\* "Add Category" pressed: the category is stored and st.rerun() starts the
\* script over, or the sidebar shows the error and the run goes on
AddCategory(new_category_name, new_category_keywords) ==
    /\ IF AddAccepted(new_category_name, new_category_keywords)
       THEN /\ \/ new_category_name \in KeySet(dictionaries)
               \/ Len(dictionaries) < MaxCats
            /\ dictionaries' = DictSet(dictionaries, new_category_name,
                                       ParseKeywords(new_category_keywords))
            /\ PlainRun(uploaded_file, NoticeNone)
       ELSE /\ dictionaries' = dictionaries
            /\ PlainRun(uploaded_file, NoticeAddError)
    /\ UNCHANGED <<uploaded_file, text_column>>

\* a file is chosen in the uploader; the column selectbox starts at the
\* first column
Upload(table) ==
    /\ uploaded_file' = table
    /\ text_column' = table.columns[1]
    /\ PlainRun(table, NoticeNone)
    /\ UNCHANGED dictionaries

\* the file is removed from the uploader
RemoveFile ==
    /\ uploaded_file # NoTable
    /\ uploaded_file' = NoTable
    /\ text_column' = NoColumn
    /\ PlainRun(NoTable, NoticeNone)
    /\ UNCHANGED dictionaries

\* another column is chosen in the column selectbox
SelectColumn(column) ==
    /\ uploaded_file # NoTable
    /\ \E i \in DOMAIN uploaded_file.columns : uploaded_file.columns[i] = column
    /\ column # text_column
    /\ text_column' = column
    /\ PlainRun(uploaded_file, NoticeNone)
    /\ UNCHANGED <<dictionaries, uploaded_file>>

\* the test written as `is None`: the store is a dict, never None
StoreEmpty_IsNone(dicts) == FALSE

\* the test `if not st.session_state.dictionaries`
StoreEmpty(dicts) == dicts = <<>>

\* "Classify Text" pressed; option is the value the filter selectbox has
\* when the results are shown
Classify ==
    /\ uploaded_file # NoTable
    /\ IF StoreEmpty(dictionaries)
       THEN PlainRun(uploaded_file, NoticeClassifyError)
       ELSE LET classified ==
                    SetColumn(uploaded_file, ClassificationColumn,
                        ApplyClassify(uploaded_file, text_column, dictionaries))
                options == FilterOptions(dictionaries)
            IN  \E option \in {options[i] : i \in DOMAIN options} :
                    /\ df' = classified
                    /\ filter_option' = option
                    /\ filtered_df' = ApplyFilter(classified, option)
                    /\ notice' = NoticeCompleted
                    /\ classify_calls' = Len(uploaded_file.rows)
    /\ UNCHANGED <<dictionaries, uploaded_file, text_column>>

Next ==
    \/ \E c \in KeySet(dictionaries), k \in KeywordInputs : Update(c, k)
    \/ \E c \in KeySet(dictionaries) : Delete(c)
    \/ \E n \in NameInputs, k \in KeywordInputs : AddCategory(n, k)
    \/ \E t \in Tables : Upload(t)
    \/ RemoveFile
    \/ \E c \in {TextColumn, ClassificationColumn} : SelectColumn(c)
    \/ Classify

Spec == Init /\ [][Next]_vars

----------------------------------------------------------------------------
(* Vocabulary of the properties *)

\* keyword K occurs in the lowercased text of cell T
Occurs(K, T) == Contains(K, Lower(Str(T)))

\* the categories of d with a keyword occurring in T, in the order of d
Matched(T, d) ==
    SelectSeq(Keys(d), LAMBDA c : \E K \in Get(d, c) : Occurs(K, T))

\* the label that reports the categories `names`
LabelOf(names) ==
    IF names = <<>> THEN Unclassified ELSE Join(names, CommaSpace)

\* name C is one of the comma-and-space separated parts of label
AppearsIn(C, label) ==
    Contains(CommaSpace \o C \o CommaSpace, CommaSpace \o label \o CommaSpace)

\* position of category k in d
Index(d, k) == CHOOSE i \in DOMAIN d : d[i].category = k

\* the rows of `rows` at the positions in S, in order
RECURSIVE Pick(_, _, _)
Pick(rows, S, i) ==
    IF i > Len(rows) THEN <<>>
    ELSE (IF i \in S THEN <<rows[i]>> ELSE <<>>) \o Pick(rows, S, i + 1)

\* the last run classified the uploaded table
Classified == notice = NoticeCompleted

----------------------------------------------------------------------------
(* Claims *)

\* C1: whenever a keyword K of category C, lowercased, is a substring of the
\* lowercased text, C appears in the label classify_text returns (matching
\* is case-insensitive on the keyword as well as on the text).
C1_KeywordImpliesCategory ==
    \A T \in Texts : \A i \in DOMAIN dictionaries :
        \A K \in dictionaries[i].keywords :
            Contains(Lower(K), Lower(Str(T)))
                => AppearsIn(dictionaries[i].category,
                             classify_text(T, dictionaries))

\* C2: if no keyword of any category of the store occurs in the lowercased
\* text, classify_text returns exactly "unclassified".
C2_NoKeywordUnclassified ==
    \A T \in Texts :
        (\A i \in DOMAIN dictionaries :
            \A K \in dictionaries[i].keywords : ~Occurs(K, T))
            => classify_text(T, dictionaries) = Unclassified

\* C2 witness: a classified table has a row in which no keyword of a
\* non-empty store occurs, labelled "unclassified"; one category of the
\* store has no keywords at all.
C2_Witness ==
    /\ Classified
    /\ \E i \in DOMAIN dictionaries : dictionaries[i].keywords = {}
    /\ \E i \in DOMAIN dictionaries : dictionaries[i].keywords # {}
    /\ \E r \in DOMAIN df.rows :
          /\ Matched(uploaded_file.rows[r][text_column], dictionaries) = <<>>
          /\ df.rows[r][ClassificationColumn] = StrCell(Unclassified)

\* C3: category names are unique in the store, and when some category
\* matches, the label is the matched category names in the store's
\* order, each once, joined by ", ".
C3_LabelInStoreOrder ==
    /\ \A i, j \in DOMAIN dictionaries :
          dictionaries[i].category = dictionaries[j].category => i = j
    /\ \A T \in Texts :
          Matched(T, dictionaries) # <<>>
              => classify_text(T, dictionaries)
                     = Join(Matched(T, dictionaries), CommaSpace)

\* C3 witness: urgency_marketing was deleted and added again, so it now
\* follows exclusive_marketing, and a classified row matched both.
C3_Witness ==
    /\ Classified
    /\ Keys(dictionaries) = <<ExclusiveMarketing, UrgencyMarketing>>
    /\ \E r \in DOMAIN df.rows :
          df.rows[r][ClassificationColumn] =
              StrCell(ExclusiveMarketing \o CommaSpace \o UrgencyMarketing)

\* C4: every category of the store has a non-empty keyword set whose
\* members are non-empty strings.
C4_KeywordSetsNonEmpty ==
    \A i \in DOMAIN dictionaries :
        /\ dictionaries[i].keywords # {}
        /\ \A K \in dictionaries[i].keywords : K # <<>>

\* C5: an Add Category with an empty name or an empty keywords input shows
\* the error and leaves the store (entries, keyword sets, order) as it was.
C5_RejectedAddLeavesStore ==
    [][\A n \in NameInputs, k \in KeywordInputs :
          ((n = <<>> \/ k = <<>>) /\ AddCategory(n, k))
              => (dictionaries' = dictionaries /\ notice' = NoticeAddError)]_vars

\* C5 witness: the last run refused an Add Category.
C5_Witness == notice = NoticeAddError

\* C6: Classify pressed while the store is empty shows the error, calls
\* classify_text on no row and leaves the table as it was read.
C6_EmptyStoreNotClassified ==
    [][(dictionaries = <<>> /\ Classify)
          => /\ notice' = NoticeClassifyError
             /\ classify_calls' = 0
             /\ df' = uploaded_file
             /\ filtered_df' = <<>>]_vars

\* C6 witness: both seed categories deleted, a table with rows uploaded,
\* Classify pressed and refused.
C6_Witness ==
    /\ dictionaries = <<>>
    /\ notice = NoticeClassifyError
    /\ uploaded_file # NoTable
    /\ uploaded_file.rows # <<>>

\* C7: the classification pass keeps the rows in order and every original
\* field with its value, and adds exactly one new field, classification,
\* holding each row's label.
C7_ClassifyAppendsOneField ==
    Classified =>
        /\ df.columns = Append(uploaded_file.columns, ClassificationColumn)
        /\ Len(df.rows) = Len(uploaded_file.rows)
        /\ \A r \in DOMAIN df.rows :
              /\ \A c \in DOMAIN uploaded_file.rows[r] :
                    df.rows[r][c] = uploaded_file.rows[r][c]
              /\ df.rows[r][ClassificationColumn] =
                    StrCell(classify_text(uploaded_file.rows[r][text_column],
                                          dictionaries))

\* what a Delete of category c must do
DeleteRemovesExactly(c) ==
    /\ c \notin KeySet(dictionaries')
    /\ KeySet(dictionaries') = KeySet(dictionaries) \ {c}
    /\ \A o \in KeySet(dictionaries') :
          Get(dictionaries', o) = Get(dictionaries, o)
    /\ \A a, b \in KeySet(dictionaries') :
          Index(dictionaries', a) < Index(dictionaries', b)
              <=> Index(dictionaries, a) < Index(dictionaries, b)
    /\ \A T \in Texts :
          classify_text(T, dictionaries') =
              LabelOf(SelectSeq(Matched(T, dictionaries), LAMBDA n : n # c))

\* no category absent from the store is among the categories reported
AbsentNotReported ==
    \A T \in Texts :
        LET reported == Classifications(Lower(Str(T)), dictionaries)
        IN  \A i \in DOMAIN reported : reported[i] \in KeySet(dictionaries)

C9_UnclassifiedIffNoMatch ==
    \A T \in Texts :
        classify_text(T, dictionaries) = Unclassified
            <=> Matched(T, dictionaries) = <<>>

\* C10: filtering the results by a category name selects exactly the rows
\* for which that category is one of the matched categories.
C10_FilterSelectsMatchedRows ==
    (Classified /\ filter_option \in KeySet(dictionaries)) =>
        filtered_df =
            Pick(df.rows,
                 {r \in DOMAIN df.rows :
                     \E m \in DOMAIN Matched(uploaded_file.rows[r][text_column],
                                             dictionaries) :
                         Matched(uploaded_file.rows[r][text_column],
                                 dictionaries)[m] = filter_option},
                 1)

====
